---- MODULE Spec2Model ----
(***************************************************************************)
(* PyB4ML: the Belief Propagation engine (class BP,                        *)
(* pyb4ml/inference/factored/belief_propagation.py) and the elimination    *)
(* bucket (class Bucket, pyb4ml/inference/factored/bucket.py).             *)
(*                                                                         *)
(* Numbers.  The code works on Python floats in logarithm space.  Here a   *)
(* plain real is an exact rational <<n, d>> (d > 0, lowest terms) and a    *)
(* logarithm-space value is the record [ln |-> r], read "the natural       *)
(* logarithm of the positive rational r".  math.log takes a plain real to  *)
(* a logarithm-space value and is undefined on r <= 0 (Python raises       *)
(* ValueError); math.exp goes back; adding two logarithm-space values      *)
(* multiplies their arguments, subtracting divides them.  Rounding of      *)
(* floats is not modelled: arithmetic is exact.                            *)
(***************************************************************************)
EXTENDS Integers, Sequences, FiniteSets, TLC

\* ------------------------------------------------------------------------
\* Exact arithmetic standing for Python floats
\* ------------------------------------------------------------------------

Abs(x) == IF x < 0 THEN -x ELSE x

\* the greatest common divisor of a >= 0 and b >= 0
GCD[a \in Nat, b \in Nat] == IF b = 0 THEN a ELSE GCD[b, a % b]

\* the rational n/d (d > 0) in lowest terms
Norm[n \in Int, d \in Nat] == <<n \div GCD[Abs(n), d], d \div GCD[Abs(n), d]>>

\* the plain reals and the logarithm-space values
Reals == Int \X Nat

LogReals == [ln : Reals]

Real(i) == <<i, 1>>

RAdd[x \in Reals, y \in Reals] == Norm[x[1] * y[2] + y[1] * x[2], x[2] * y[2]]

RMul[x \in Reals, y \in Reals] == Norm[x[1] * y[1], x[2] * y[2]]

\* x / y for y > 0
RDiv[x \in Reals, y \in Reals] == Norm[x[1] * y[2], x[2] * y[1]]

RLess(x, y) == x[1] * y[2] < y[1] * x[2]

\* math.fsum over the values g[x], x \in S
FSum(g, S) ==
    LET sum[U \in SUBSET S] ==
            IF U = {} THEN Real(0)
            ELSE LET x == CHOOSE y \in U : TRUE
                 IN  RAdd[g[x], sum[U \ {x}]]
    IN  sum[S]

\* math.log is defined on strictly positive reals only
LogDefined(r) == r[1] > 0

\* math.log(r)
Log(r) == [ln |-> r]

\* math.exp(l)
Exp(l) == l.ln

\* the float 0 used as a logarithm-space value
LZero == [ln |-> Real(1)]

\* l + m and l - m on logarithm-space values
LAdd[l \in LogReals, m \in LogReals] == [ln |-> RMul[l.ln, m.ln]]

LSub[l \in LogReals, m \in LogReals] == [ln |-> RDiv[l.ln, m.ln]]

LLess(l, m) == RLess(l.ln, m.ln)

\* math.fsum over the logarithm-space values g[x], x \in S
LFSum(g, S) ==
    LET sum[U \in SUBSET S] ==
            IF U = {} THEN LZero
            ELSE LET x == CHOOSE y \in U : TRUE
                 IN  LAdd[g[x], sum[U \ {x}]]
    IN  sum[S]

\* max over a non-empty set of logarithm-space values
LMax(S) == CHOOSE m \in S : \A l \in S : ~LLess(m, l)

Range(s) == {s[i] : i \in 1..Len(s)}

\* ------------------------------------------------------------------------
\* The factor graph handed to BP.__init__ (FactorGraph, Variable, Factor)
\* ------------------------------------------------------------------------

GraphIds == {"chain", "star", "fork", "cycle", "lollipop"}

\* FactorGraph.variables, in construction order
Variables(g) ==
    CASE g = "chain"    -> <<"A", "B", "C">>
      [] g = "star"     -> <<"A", "B", "C", "D">>
      [] g = "fork"     -> <<"A", "B", "C">>
      [] g = "cycle"    -> <<"A", "B">>
      [] g = "lollipop" -> <<"A", "B", "C">>

\* FactorGraph.factors, in construction order
Factors(g) ==
    CASE g = "chain"    -> <<"F1", "F2">>
      [] g = "star"     -> <<"F1", "F2", "F3">>
      [] g = "fork"     -> <<"F0", "F1">>
      [] g = "cycle"    -> <<"F1", "F2">>
      [] g = "lollipop" -> <<"F1", "F2", "F3">>

\* Factor.variables: the ordered tuple of the factor's variables
FactorVariables(g, f) ==
    CASE g = "chain"    -> (IF f = "F1" THEN <<"A", "B">> ELSE <<"B", "C">>)
      [] g = "star"     -> (IF f = "F1" THEN <<"A", "B">>
                            ELSE IF f = "F2" THEN <<"A", "C">> ELSE <<"A", "D">>)
      [] g = "fork"     -> (IF f = "F0" THEN <<"A">> ELSE <<"A", "B", "C">>)
      [] g = "cycle"    -> <<"A", "B">>
      [] g = "lollipop" -> (IF f = "F3" THEN <<"B", "C">> ELSE <<"A", "B">>)

VariableSet(g) == Range(Variables(g))

FactorSet(g) == Range(Factors(g))

\* Variable.factors: the factors linked to the variable, in linking order
VariableFactors(g, v) ==
    SelectSeq(Factors(g), LAMBDA f : v \in Range(FactorVariables(g, f)))

\* Factor.variables_number and Variable.factors_number
VariablesNumber(g, f) == Len(FactorVariables(g, f))

FactorsNumber(g, v) == Len(VariableFactors(g, v))

\* FactorGraph.factor_leaves and FactorGraph.variable_leaves
FactorLeaves(g) == SelectSeq(Factors(g), LAMBDA f : VariablesNumber(g, f) = 1)

VariableLeaves(g) == SelectSeq(Variables(g), LAMBDA v : FactorsNumber(g, v) = 1)

\* the number of edges of the bipartite graph
EdgesNumber(g) ==
    Cardinality({<<f, v>> \in FactorSet(g) \X VariableSet(g) :
                    v \in Range(FactorVariables(g, f))})

\* a connected graph is a tree iff it has one edge less than nodes
IsTree(g) == EdgesNumber(g) + 1 = Len(Variables(g)) + Len(Factors(g))

\* the domain of a variable that is not evidential
FullDomain == <<0, 1>>

\* evidence is the tuple of (variable, value) pairs given to set_evidence
IsEvidential(ev, v) == \E i \in 1..Len(ev) : ev[i][1] = v

EvidentialValue(ev, v) == ev[CHOOSE i \in 1..Len(ev) : ev[i][1] = v][2]

\* Variable.domain: an evidential variable's domain is its observed value alone
Domain(ev, v) == IF IsEvidential(ev, v) THEN <<EvidentialValue(ev, v)>> ELSE FullDomain

DomainSet(ev, v) == Range(Domain(ev, v))

IndexOf(s, x) == CHOOSE i \in 1..Len(s) : s[i] = x

RECURSIVE WeightedSum(_, _)
WeightedSum(vals, i) ==
    IF i > Len(vals) THEN 0 ELSE i * vals[i] + WeightedSum(vals, i + 1)

\* the function of a factor at the values vals of its variables (scope order).
\* chain: the scenario F(a, b) = 1 if a = b else 0.2; elsewhere asymmetric
\* positive tables.  m.bad = <<f, x>> makes factor f take the value x where
\* all its variables are 1.
FactorFunction(m, f, vals) ==
    IF m.bad # <<>> /\ m.bad[1] = f /\ \A i \in 1..Len(vals) : vals[i] = 1
    THEN Real(m.bad[2])
    ELSE IF m.graph = "chain"
         THEN (IF vals[1] = vals[2] THEN Real(1) ELSE <<1, 5>>)
         ELSE Real(IndexOf(Factors(m.graph), f) + WeightedSum(vals, 1))

\* Factor.__call__(*variables_with_values): a variable not bound by the
\* caller is evidential and takes its observed value
FactorCall(m, ev, f, binding) ==
    LET vars == FactorVariables(m.graph, f)
    IN  FactorFunction(m, f,
            [i \in 1..Len(vars) |->
                IF vars[i] \in DOMAIN binding THEN binding[vars[i]]
                ELSE Domain(ev, vars[i])[1]])

\* Variable.split_evidential_and_non_evidential_variables(variables, without_variables)
SplitEvidential(ev, vars, without) ==
    SelectSeq(vars, LAMBDA v : v \notin without /\ IsEvidential(ev, v))

SplitNonEvidential(ev, vars, without) ==
    SelectSeq(vars, LAMBDA v : v \notin without /\ ~IsEvidential(ev, v))

\* Variable.evaluate_variables(variables): the cross product of the domains,
\* each element an assignment of the variables
EvaluateVariables(ev, vars) ==
    {a \in [Range(vars) -> Range(FullDomain)] : \A v \in Range(vars) : a[v] \in DomainSet(ev, v)}

\* ------------------------------------------------------------------------
\* Messages (factor_tree_messages.Messages): a mapping (from_node, to_node) -> values
\* ------------------------------------------------------------------------

\* Messages()
EmptyMessages == <<>>

\* Messages.contains(from_node, to_node)
Contains(msgs, from, to) == <<from, to>> \in DOMAIN msgs

\* Messages.cache(message)
Cache(msgs, from, to, values) == msgs @@ (<<from, to>> :> values)

\* Messages.get_from_nodes_to_node(from_nodes, to_node) is defined when every
\* requested message is stored
HasAll(msgs, fromNodes, to) == \A n \in Range(fromNodes) : Contains(msgs, n, to)

\* ------------------------------------------------------------------------
\* State of a BP object and of the graph's traversal fields
\* ------------------------------------------------------------------------

VARIABLES
    model,                          \* the FactorGraph given to BP.__init__
    factor_to_variable_messages,    \* self._factor_to_variable_messages: evidence -> Messages
    variable_to_factor_messages,    \* self._variable_to_factor_messages: evidence -> Messages
    query,                          \* self._query, as given to set_query
    query_variable,                 \* self._query_variable ("None" before the first valid run)
    evidence_tuples,                \* self._evidence_tuples, as given to set_evidence
    distribution,                   \* self._distribution ("None" or value tuple -> probability)
    from_factors,                   \* self._from_factors
    next_factors,                   \* self._next_factors
    from_variables,                 \* self._from_variables
    next_variables,                 \* self._next_variables
    passed,                         \* node.passed, per variable and factor
    incoming_messages_number,       \* node.incoming_messages_number, per variable and factor
    loop_passing,                   \* self._loop_passing
    pc,                             \* the position of run()
    idx,                            \* the position of the for loop run() is in
    outcome,                        \* how the last run() ended
    runs,                           \* history: the number of run() calls so far
    computations,                   \* history: (evidence, from, to) -> times computed since the last clear
    sent,                           \* history: the (from, to) messages propagated by this run
    computed_now,                   \* history: the (from, to) messages computed by this run
    fresh,                          \* history: this run began right after clear_message_cache()
    used_evidence                   \* history: the evidence of earlier valid runs

bpvars == <<model, factor_to_variable_messages, variable_to_factor_messages, query,
            query_variable, evidence_tuples, distribution, from_factors, next_factors,
            from_variables, next_variables, passed, incoming_messages_number,
            loop_passing, pc, idx, outcome, runs, computations, sent, computed_now,
            fresh, used_evidence>>

\* the number of run() calls in a behaviour
MaxRuns == 2

\* the number of relay sweeps after which a run is no longer followed
MaxLoop == 8

G == model.graph

NodeSet(g) == VariableSet(g) \cup FactorSet(g)

NodesNumber(g) == Len(Variables(g)) + Len(Factors(g))

\* the models: each graph with positive factors, and with one factor taking
\* a zero or negative value
BadValues == {0, -1, -9}

Models ==
    {[graph |-> g, bad |-> <<>>] : g \in GraphIds}
    \cup UNION {{[graph |-> g, bad |-> <<f, x>>] : f \in FactorSet(g), x \in BadValues} :
                    g \in {"chain", "fork", "lollipop"}}

\* the queries and evidence given to set_query and set_evidence
Queries(g) ==
    {<<>>, <<Variables(g)[1], Variables(g)[2]>>} \cup {<<v>> : v \in VariableSet(g)}

Evidences(g) ==
    {<<>>, << <<"A", 0>> >>, << <<Variables(g)[Len(Variables(g))], 1>> >>}

\* ------------------------------------------------------------------------
\* The message rules
\* ------------------------------------------------------------------------

\* NeedsCompute without the test of the store
NeedsComputeAlways(msgs, from, to) == TRUE

\* "if not ...messages[evidence].contains(from_node, to_node)": compute the
\* message only when it is not stored
NeedsCompute(msgs, from, to) == ~Contains(msgs, from, to)

\* _compute_factor_to_variable_message_from_leaf: the factor's values before the logarithm
LeafFactorReals(m, ev, f, v) ==
    [value \in DomainSet(ev, v) |-> FactorCall(m, ev, f, (v :> value))]

FactorLeafMessage(m, ev, f, v) ==
    LET reals == LeafFactorReals(m, ev, f, v)
        ok    == \A value \in DOMAIN reals : LogDefined(reals[value])
    IN  [error  |-> IF ok THEN "none" ELSE "ValueError",
         values |-> IF ok THEN [value \in DOMAIN reals |-> Log(reals[value])] ELSE <<>>]

\* _compute_variable_to_factor_message_from_leaf
VariableLeafMessage(ev, v) ==
    [error |-> "none", values |-> [value \in DomainSet(ev, v) |-> LZero]]

\* max_message of _compute_factor_to_variable_message_not_from_leaf
MaxMessage(ev, vfm, f, free) ==
    IF Len(free) > 0
    THEN LMax({vfm[<<n, f>>][value] : <<n, value>> \in
                 {p \in Range(free) \X Range(FullDomain) : p[2] \in DomainSet(ev, p[1])}})
    ELSE LZero

\* evidential_messages_sum
EvidentialMessagesSum(ev, vfm, f, evidential) ==
    LFSum([n \in Range(evidential) |-> vfm[<<n, f>>][Domain(ev, n)[1]]], Range(evidential))

\* NotFromLeafSum summing the factor alone, without the incoming messages
NotFromLeafSumNoMessages(m, ev, vfm, f, to, value, free, max_message) ==
    LET assignments == EvaluateVariables(ev, free)
    IN  FSum([a \in assignments |-> FactorCall(m, ev, f, a @@ (to :> value))], assignments)

\* the argument of math.log for one value of to_variable
NotFromLeafSum(m, ev, vfm, f, to, value, free, max_message) ==
    LET assignments == EvaluateVariables(ev, free)
        term(a) ==
            RMul[FactorCall(m, ev, f, a @@ (to :> value)),
                 Exp(LSub[LFSum([n \in Range(free) |-> vfm[<<n, f>>][a[n]]], Range(free)),
                          max_message])]
    IN  FSum([a \in assignments |-> term(a)], assignments)

\* one value of the message: evidential_messages_sum + max_message + math.log(...)
NotFromLeafValue(evidential_sum, max_message, sum) ==
    LAdd[LAdd[evidential_sum, max_message], Log(sum)]

\* _compute_factor_to_variable_message_not_from_leaf
FactorMessage(m, ev, vfm, f, to) ==
    LET vars        == FactorVariables(m.graph, f)
        evidential  == SplitEvidential(ev, vars, {to})
        free        == SplitNonEvidential(ev, vars, {to})
        have        == HasAll(vfm, evidential, f) /\ HasAll(vfm, free, f)
        max_message == MaxMessage(ev, vfm, f, free)
        sums        == [value \in DomainSet(ev, to) |->
                           NotFromLeafSum(m, ev, vfm, f, to, value, free, max_message)]
        ok          == \A value \in DomainSet(ev, to) : LogDefined(sums[value])
    IN  IF ~have THEN [error |-> "KeyError", values |-> <<>>]
        ELSE IF ~ok THEN [error |-> "ValueError", values |-> <<>>]
        ELSE [error  |-> "none",
              values |-> [value \in DomainSet(ev, to) |->
                            NotFromLeafValue(EvidentialMessagesSum(ev, vfm, f, evidential),
                                             max_message, sums[value])]]

\* _compute_variable_to_factor_message_not_from_leaf
VariableMessage(m, ev, fvm, v, to) ==
    LET others == SelectSeq(VariableFactors(m.graph, v), LAMBDA f : f # to)
    IN  IF ~HasAll(fvm, others, v) THEN [error |-> "KeyError", values |-> <<>>]
        ELSE [error  |-> "none",
              values |-> [value \in DomainSet(ev, v) |->
                            LFSum([f \in Range(others) |-> fvm[<<f, v>>][value]],
                                  Range(others))]]

\* nn_values of _compute_distribution
NNValues(m, ev, fvm, q) ==
    LET fs == Range(VariableFactors(m.graph, q))
    IN  [value \in DomainSet(ev, q) |->
            Exp(LFSum([f \in fs |-> fvm[<<f, q>>][value]], fs))]

\* NormConst taking the largest value for the sum
NormConstMax(nn) == CHOOSE x \in {nn[v] : v \in DOMAIN nn} : \A v \in DOMAIN nn : ~RLess(x, nn[v])

\* norm_const of _compute_distribution
NormConst(nn) == FSum(nn, DOMAIN nn)

\* self._distribution of _compute_distribution
Distribution(m, ev, fvm, q) ==
    LET nn == NNValues(m, ev, fvm, q)
    IN  [t \in {<<value>> : value \in DomainSet(ev, q)} |-> RDiv[nn[t[1]], NormConst(nn)]]

\* ------------------------------------------------------------------------
\* run(), step by step, and clear_message_cache()
\* ------------------------------------------------------------------------

\* FactoredAlgorithm.check_non_empty_query
CheckNonEmptyQuery(q) == Len(q) > 0

\* FactoredAlgorithm.check_one_variable_query
CheckOneVariableQuery(q) == Len(q) = 1

\* FactoredAlgorithm.check_query_and_evidence_intersection
CheckQueryAndEvidenceIntersection(q, ev) ==
    \A i \in 1..Len(q) : ~IsEvidential(ev, q[i])

\* CreateCacheIfNecessary giving the evidence a new empty context every time
CreateCacheAlways(store, ev) ==
    [e \in DOMAIN store \cup {ev} |-> IF e = ev THEN EmptyMessages ELSE store[e]]

\* _create_*_messages_cache_if_necessary
CreateCacheIfNecessary(store, ev) ==
    IF ev \notin DOMAIN store THEN store @@ (ev :> EmptyMessages) ELSE store

\* RunningCondition stopping at the first message into the query variable
RunningConditionFirst == incoming_messages_number[query_variable] < 1

\* RunningCondition stopping one message short
RunningConditionEarly ==
    incoming_messages_number[query_variable] + 1 < FactorsNumber(G, query_variable)

\* _get_running_condition
RunningCondition ==
    incoming_messages_number[query_variable] < FactorsNumber(G, query_variable)

\* ExtendNextVariables without the test for the query variable
ExtendNextVariablesWithQuery(variable, counts) ==
    IF counts[variable] + 1 = FactorsNumber(G, variable)
    THEN Append(next_variables, variable)
    ELSE next_variables

\* ExtendNextVariables enqueueing when no message is missing
ExtendNextVariablesAllReceived(variable, counts) ==
    IF variable # query_variable /\ counts[variable] = FactorsNumber(G, variable)
    THEN Append(next_variables, variable)
    ELSE next_variables

\* ExtendNextVariables appending nothing
ExtendNextVariablesNever(variable, counts) == next_variables

\* _extend_next_variables, given the counts after _update_passing
ExtendNextVariables(variable, counts) ==
    IF variable # query_variable /\ counts[variable] + 1 = FactorsNumber(G, variable)
    THEN Append(next_variables, variable)
    ELSE next_variables

\* ExtendNextFactors one message early
ExtendNextFactorsEarly(factor, counts) ==
    IF counts[factor] + 2 = VariablesNumber(G, factor)
    THEN Append(next_factors, factor)
    ELSE next_factors

\* ExtendNextFactors comparing the count itself with the degree
ExtendNextFactorsLate(factor, counts) ==
    IF counts[factor] = VariablesNumber(G, factor)
    THEN Append(next_factors, factor)
    ELSE next_factors

\* _extend_next_factors, given the counts after _update_passing
ExtendNextFactors(factor, counts) ==
    IF counts[factor] + 1 = VariablesNumber(G, factor)
    THEN Append(next_factors, factor)
    ELSE next_factors

\* where run() goes after the i-th element of each of its for loops
AfterFactorLeaf(i) ==
    IF i < Len(FactorLeaves(G)) THEN <<"factor_leaves", i + 1>>
    ELSE IF Len(VariableLeaves(G)) > 0 THEN <<"variable_leaves", 1>>
    ELSE <<"loop", 0>>

AfterVariableLeaf(i) ==
    IF i < Len(VariableLeaves(G)) THEN <<"variable_leaves", i + 1>> ELSE <<"loop", 0>>

AfterFromFactor(i, ffs, fvs) ==
    IF i < Len(ffs) THEN <<"from_factors", i + 1>>
    ELSE IF Len(fvs) > 0 THEN <<"from_variables", 1>>
    ELSE <<"loop", 0>>

AfterFromVariable(i, fvs) ==
    IF i < Len(fvs) THEN <<"from_variables", i + 1>> ELSE <<"loop", 0>>

Count(key) == IF key \in DOMAIN computations THEN computations[key] ELSE 0

\* an exception leaves run(): every field keeps the value it has
Raise(error) ==
    /\ pc' = "idle"
    /\ idx' = 0
    /\ outcome' = error
    /\ UNCHANGED <<model, factor_to_variable_messages, variable_to_factor_messages, query,
                   query_variable, evidence_tuples, distribution, from_factors,
                   next_factors, from_variables, next_variables, passed,
                   incoming_messages_number, loop_passing, runs, computations, sent,
                   computed_now, fresh, used_evidence>>

\* UpdatePassing counting the first message into a node only
UpdatePassingFirstOnly(to) ==
    [incoming_messages_number EXCEPT ![to] = IF @ = 0 THEN 1 ELSE @]

\* _update_passing(from_node, to_node): the counts it leaves
UpdatePassing(to) == [incoming_messages_number EXCEPT ![to] = @ + 1]

\* Propagate leaving the destination out of the next-sweep queues when the
\* message is taken from the store
PropagateStoredNotExtended(kind, from, to, r, pos) ==
    LET ev    == evidence_tuples
        store == IF kind = "fv" THEN factor_to_variable_messages
                 ELSE variable_to_factor_messages
        need  == NeedsCompute(store[ev], from, to)
        new   == IF need THEN [store EXCEPT ![ev] = Cache(@, from, to, r.values)] ELSE store
        counts == UpdatePassing(to)
        bumped == [k \in DOMAIN computations \cup {<<ev, from, to>>} |->
                     IF k = <<ev, from, to>> THEN Count(k) + 1 ELSE computations[k]]
    IN  IF need /\ r.error # "none" THEN Raise(r.error)
        ELSE /\ factor_to_variable_messages' =
                    IF kind = "fv" THEN new ELSE factor_to_variable_messages
             /\ variable_to_factor_messages' =
                    IF kind = "vf" THEN new ELSE variable_to_factor_messages
             /\ computations' = IF need THEN bumped ELSE computations
             /\ computed_now' = IF need THEN computed_now \cup {<<from, to>>} ELSE computed_now
             /\ sent' = sent \cup {<<from, to>>}
             /\ passed' = [passed EXCEPT ![from] = TRUE]
             /\ incoming_messages_number' = counts
             /\ next_variables' =
                    IF kind = "fv" /\ need THEN ExtendNextVariables(to, counts)
                    ELSE next_variables
             /\ next_factors' =
                    IF kind = "vf" /\ need THEN ExtendNextFactors(to, counts)
                    ELSE next_factors
             /\ pc' = pos[1]
             /\ idx' = pos[2]
             /\ UNCHANGED <<model, query, query_variable, evidence_tuples, distribution,
                            from_factors, from_variables, loop_passing, outcome, runs,
                            fresh, used_evidence>>

\* _propagate_*: compute the message if it is not stored, cache it,
\* _update_passing(from, to), _extend_next_*(to); r is the computed message
Propagate(kind, from, to, r, pos) ==
    LET ev    == evidence_tuples
        store == IF kind = "fv" THEN factor_to_variable_messages
                 ELSE variable_to_factor_messages
        need  == NeedsCompute(store[ev], from, to)
        new   == IF need THEN [store EXCEPT ![ev] = Cache(@, from, to, r.values)] ELSE store
        counts == UpdatePassing(to)
        bumped == [k \in DOMAIN computations \cup {<<ev, from, to>>} |->
                     IF k = <<ev, from, to>> THEN Count(k) + 1 ELSE computations[k]]
    IN  IF need /\ r.error # "none" THEN Raise(r.error)
        ELSE IF need /\ Contains(store[ev], from, to)
        THEN \* Messages.cache refuses a second message for the key
             /\ pc' = "idle"
             /\ idx' = 0
             /\ outcome' = "CacheError"
             /\ computations' = bumped
             /\ computed_now' = computed_now \cup {<<from, to>>}
             /\ UNCHANGED <<model, factor_to_variable_messages,
                            variable_to_factor_messages, query, query_variable,
                            evidence_tuples, distribution, from_factors, next_factors,
                            from_variables, next_variables, passed,
                            incoming_messages_number, loop_passing, runs, sent, fresh,
                            used_evidence>>
        ELSE /\ factor_to_variable_messages' =
                    IF kind = "fv" THEN new ELSE factor_to_variable_messages
             /\ variable_to_factor_messages' =
                    IF kind = "vf" THEN new ELSE variable_to_factor_messages
             /\ computations' = IF need THEN bumped ELSE computations
             /\ computed_now' = IF need THEN computed_now \cup {<<from, to>>} ELSE computed_now
             /\ sent' = sent \cup {<<from, to>>}
             /\ passed' = [passed EXCEPT ![from] = TRUE]
             /\ incoming_messages_number' = counts
             /\ next_variables' =
                    IF kind = "fv" THEN ExtendNextVariables(to, counts) ELSE next_variables
             /\ next_factors' =
                    IF kind = "vf" THEN ExtendNextFactors(to, counts) ELSE next_factors
             /\ pc' = pos[1]
             /\ idx' = pos[2]
             /\ UNCHANGED <<model, query, query_variable, evidence_tuples, distribution,
                            from_factors, from_variables, loop_passing, outcome, runs,
                            fresh, used_evidence>>

\* StartRun without _initialize_variable_passing
StartRunNoVariablePassing(q, ev) ==
    LET pos == AfterFactorLeaf(0)
    IN  /\ query_variable' = q[1]
        /\ factor_to_variable_messages' = CreateCacheIfNecessary(factor_to_variable_messages, ev)
        /\ variable_to_factor_messages' = CreateCacheIfNecessary(variable_to_factor_messages, ev)
        /\ distribution' = <<>>
        /\ loop_passing' = 0
        /\ next_factors' = <<>>
        /\ next_variables' = <<>>
        /\ passed' = [n \in NodeSet(G) |-> IF n \in FactorSet(G) THEN FALSE ELSE passed[n]]
        /\ incoming_messages_number' =
               [n \in NodeSet(G) |-> IF n \in FactorSet(G) THEN 0
                                     ELSE incoming_messages_number[n]]
        /\ pc' = pos[1]
        /\ idx' = pos[2]
        /\ outcome' = "running"
        /\ sent' = {}
        /\ computed_now' = {}
        /\ fresh' = IF fresh = "cleared" THEN "first" ELSE "no"
        /\ UNCHANGED <<model, from_factors, from_variables, computations, used_evidence>>

\* run(), lines 85-105 with _initialize_main_loop up to the leaf loops, when
\* the checks pass
StartRun(q, ev) ==
    LET pos == AfterFactorLeaf(0)
    IN  /\ query_variable' = q[1]
        /\ factor_to_variable_messages' = CreateCacheIfNecessary(factor_to_variable_messages, ev)
        /\ variable_to_factor_messages' = CreateCacheIfNecessary(variable_to_factor_messages, ev)
        /\ distribution' = <<>>
        /\ loop_passing' = 0
        /\ next_factors' = <<>>
        /\ next_variables' = <<>>
        /\ passed' = [n \in NodeSet(G) |-> FALSE]
        /\ incoming_messages_number' = [n \in NodeSet(G) |-> 0]
        /\ pc' = pos[1]
        /\ idx' = pos[2]
        /\ outcome' = "running"
        /\ sent' = {}
        /\ computed_now' = {}
        /\ fresh' = IF fresh = "cleared" THEN "first" ELSE "no"
        /\ UNCHANGED <<model, from_factors, from_variables, computations, used_evidence>>

\* run() when a check raises
RejectRun ==
    /\ pc' = "idle"
    /\ idx' = 0
    /\ outcome' = "ValidationError"
    /\ UNCHANGED <<model, factor_to_variable_messages, variable_to_factor_messages,
                   query_variable, distribution, from_factors, next_factors,
                   from_variables, next_variables, passed, incoming_messages_number,
                   loop_passing, computations, sent, computed_now, fresh, used_evidence>>

\* Run creating the evidence's caches before the checks
RunCachesFirst(q, ev) ==
    /\ pc = "idle"
    /\ runs < MaxRuns
    /\ runs' = runs + 1
    /\ query' = q
    /\ evidence_tuples' = ev
    /\ IF /\ CheckNonEmptyQuery(q)
          /\ CheckOneVariableQuery(q)
          /\ CheckQueryAndEvidenceIntersection(q, ev)
       THEN StartRun(q, ev)
       ELSE /\ pc' = "idle"
            /\ idx' = 0
            /\ outcome' = "ValidationError"
            /\ factor_to_variable_messages' =
                   CreateCacheIfNecessary(factor_to_variable_messages, ev)
            /\ variable_to_factor_messages' =
                   CreateCacheIfNecessary(variable_to_factor_messages, ev)
            /\ UNCHANGED <<model, query_variable, distribution, from_factors, next_factors,
                           from_variables, next_variables, passed,
                           incoming_messages_number, loop_passing, computations, sent,
                           computed_now, fresh, used_evidence>>

\* set_query(*q), set_evidence(*ev) and run()
Run(q, ev) ==
    /\ pc = "idle"
    /\ runs < MaxRuns
    /\ runs' = runs + 1
    /\ query' = q
    /\ evidence_tuples' = ev
    /\ IF /\ CheckNonEmptyQuery(q)
          /\ CheckOneVariableQuery(q)
          /\ CheckQueryAndEvidenceIntersection(q, ev)
       THEN StartRun(q, ev)
       ELSE RejectRun

\* one pass of the for loop of _propagate_factor_to_variable_messages_from_leaves
PropagateFactorLeaf ==
    /\ pc = "factor_leaves"
    /\ LET from_factor == FactorLeaves(G)[idx]
           to_variable == FactorVariables(G, from_factor)[1]
       IN  Propagate("fv", from_factor, to_variable,
                     FactorLeafMessage(model, evidence_tuples, from_factor, to_variable),
                     AfterFactorLeaf(idx))

\* one pass of the for loop of _propagate_variable_to_factor_messages_from_leaves
PropagateVariableLeaf ==
    /\ pc = "variable_leaves"
    /\ LET from_variable == VariableLeaves(G)[idx]
           to_factor     == VariableFactors(G, from_variable)[1]
           pos           == AfterVariableLeaf(idx)
       IN  IF from_variable = query_variable
           THEN /\ pc' = pos[1]
                /\ idx' = pos[2]
                /\ UNCHANGED <<model, factor_to_variable_messages,
                               variable_to_factor_messages, query, query_variable,
                               evidence_tuples, distribution, from_factors, next_factors,
                               from_variables, next_variables, passed,
                               incoming_messages_number, loop_passing, outcome, runs,
                               computations, sent, computed_now, fresh, used_evidence>>
           ELSE Propagate("vf", from_variable, to_factor,
                          VariableLeafMessage(evidence_tuples, from_variable), pos)

\* EnterLoop leaving the next-sweep queues as they are
EnterLoopKeepsNext ==
    /\ pc = "loop"
    /\ RunningCondition
    /\ loop_passing < MaxLoop
    /\ loop_passing' = loop_passing + 1
    /\ from_factors' = next_factors
    /\ from_variables' = next_variables
    /\ LET pos == AfterFromFactor(0, next_factors, next_variables)
       IN  pc' = pos[1] /\ idx' = pos[2]
    /\ UNCHANGED <<model, factor_to_variable_messages, variable_to_factor_messages, query,
                   query_variable, evidence_tuples, distribution, passed, next_factors,
                   next_variables, incoming_messages_number, outcome, runs, computations,
                   sent, computed_now, fresh, used_evidence>>

\* the while test of run() holds: the head of the loop body, lines 109-116
EnterLoop ==
    /\ pc = "loop"
    /\ RunningCondition
    /\ loop_passing < MaxLoop
    /\ loop_passing' = loop_passing + 1
    /\ from_factors' = next_factors
    /\ next_factors' = <<>>
    /\ from_variables' = next_variables
    /\ next_variables' = <<>>
    /\ LET pos == AfterFromFactor(0, next_factors, next_variables)
       IN  pc' = pos[1] /\ idx' = pos[2]
    /\ UNCHANGED <<model, factor_to_variable_messages, variable_to_factor_messages, query,
                   query_variable, evidence_tuples, distribution, passed,
                   incoming_messages_number, outcome, runs, computations, sent,
                   computed_now, fresh, used_evidence>>

\* the while test of run() fails: propagation stopped
LeaveLoop ==
    /\ pc = "loop"
    /\ ~RunningCondition
    /\ pc' = "distribution"
    /\ UNCHANGED <<model, factor_to_variable_messages, variable_to_factor_messages, query,
                   query_variable, evidence_tuples, distribution, from_factors,
                   next_factors, from_variables, next_variables, passed,
                   incoming_messages_number, loop_passing, idx, outcome, runs,
                   computations, sent, computed_now, fresh, used_evidence>>

\* _propagate_factor_to_variable_message_not_from_leaf(from_factors[idx])
PropagateFactor ==
    /\ pc = "from_factors"
    /\ LET from_factor == from_factors[idx]
           unpassed    == SelectSeq(FactorVariables(G, from_factor), LAMBDA v : ~passed[v])
       IN  IF Len(unpassed) # 1 THEN Raise("UnpackError")
           ELSE Propagate("fv", from_factor, unpassed[1],
                          FactorMessage(model, evidence_tuples,
                                        variable_to_factor_messages[evidence_tuples],
                                        from_factor, unpassed[1]),
                          AfterFromFactor(idx, from_factors, from_variables))

\* _propagate_variable_to_factor_message_not_from_leaf(from_variables[idx])
PropagateVariable ==
    /\ pc = "from_variables"
    /\ LET from_variable == from_variables[idx]
           unpassed      == SelectSeq(VariableFactors(G, from_variable), LAMBDA f : ~passed[f])
       IN  IF Len(unpassed) # 1 THEN Raise("UnpackError")
           ELSE Propagate("vf", from_variable, unpassed[1],
                          VariableMessage(model, evidence_tuples,
                                          factor_to_variable_messages[evidence_tuples],
                                          from_variable, unpassed[1]),
                          AfterFromVariable(idx, from_variables))

\* _compute_distribution, and run() returns
ComputeDistribution ==
    /\ pc = "distribution"
    /\ LET fvm == factor_to_variable_messages[evidence_tuples]
       IN  IF ~HasAll(fvm, VariableFactors(G, query_variable), query_variable)
           THEN Raise("KeyError")
           ELSE /\ distribution' = Distribution(model, evidence_tuples, fvm, query_variable)
                /\ passed' = [passed EXCEPT ![query_variable] = TRUE]
                /\ pc' = "idle"
                /\ outcome' = "returned"
                /\ UNCHANGED <<model, factor_to_variable_messages,
                               variable_to_factor_messages, query, query_variable,
                               evidence_tuples, from_factors, next_factors, from_variables,
                               next_variables, incoming_messages_number, loop_passing, idx,
                               runs, computations, sent, computed_now, fresh, used_evidence>>

\* ClearMessageCache replacing one of the two stores only
ClearFactorMessagesOnly ==
    /\ pc = "idle"
    /\ factor_to_variable_messages' = <<>>
    /\ computations' = <<>>
    /\ fresh' = "cleared"
    /\ used_evidence' = used_evidence \cup DOMAIN factor_to_variable_messages
    /\ UNCHANGED <<model, variable_to_factor_messages, query, query_variable,
                   evidence_tuples, distribution, from_factors, next_factors,
                   from_variables, next_variables, passed, incoming_messages_number,
                   loop_passing, pc, idx, outcome, runs, sent, computed_now>>

\* clear_message_cache()
ClearMessageCache ==
    /\ pc = "idle"
    /\ factor_to_variable_messages' = <<>>
    /\ variable_to_factor_messages' = <<>>
    /\ computations' = <<>>
    /\ fresh' = "cleared"
    /\ used_evidence' = used_evidence \cup DOMAIN factor_to_variable_messages
    /\ UNCHANGED <<model, query, query_variable, evidence_tuples, distribution,
                   from_factors, next_factors, from_variables, next_variables, passed,
                   incoming_messages_number, loop_passing, pc, idx, outcome, runs, sent,
                   computed_now>>

\* ------------------------------------------------------------------------
\* The elimination bucket (class Bucket)
\* ------------------------------------------------------------------------

VARIABLES
    bucket_variable,        \* self._variable
    input_log_factors,      \* self._input_log_factors
    evidential_variables,   \* self._evidential_variables
    free_variables,         \* self._free_variables
    bucket_evidence,        \* the evidence set on the variables of the log-factors
    output_log_factor,      \* the factor compute_output_log_factor() returned
    bucket_outcome,         \* the last call on the bucket and how it ended
    set_at                  \* history: the number of inputs when the variables were set (-1: never)

bucketvars == <<bucket_variable, input_log_factors, evidential_variables, free_variables,
                bucket_evidence, output_log_factor, bucket_outcome, set_at>>

vars == <<bpvars, bucketvars>>

\* the number of log-factors added to a bucket
MaxInputs == 3

\* the variables of the log-factors, by name
BucketVariableNames == <<"X", "Y", "Z">>

\* the log-factors that may be added, with and without the bucket's variable
LogFactorPool ==
    {[name |-> "g1", variables |-> <<"X">>],
     [name |-> "g2", variables |-> <<"X", "Y">>],
     [name |-> "g3", variables |-> <<"Z", "X">>],
     [name |-> "g4", variables |-> <<"Y", "X", "Z">>],
     [name |-> "g5", variables |-> <<"Z", "Y">>]}

LogFactorIndex(lf) ==
    CASE lf.name = "g1" -> 1 [] lf.name = "g2" -> 2 [] lf.name = "g3" -> 3
      [] lf.name = "g4" -> 4 [] lf.name = "g5" -> 5

\* the function of a log-factor at the values vals of its variables: the
\* logarithm of a positive table entry (below and above 1)
LogFactorFunction(lf, vals) ==
    Log(Norm[LogFactorIndex(lf) + WeightedSum(vals, 1), 3])

\* Factor.filter_values and Factor.__call__ on a log-factor: the values of
\* the factor's own variables are taken from the binding, an evidential
\* variable takes its observed value
LogFactorCall(ev, lf, binding) ==
    LogFactorFunction(lf,
        [i \in 1..Len(lf.variables) |->
            IF IsEvidential(ev, lf.variables[i]) THEN Domain(ev, lf.variables[i])[1]
            ELSE binding[lf.variables[i]]])

\* the call is defined when every non-evidential variable of the factor is bound
LogFactorCallDefined(ev, lf, bound) ==
    \A v \in Range(lf.variables) : IsEvidential(ev, v) \/ v \in bound

NameRank(v) == IndexOf(BucketVariableNames, v)

\* sorted(variables, key=lambda x: x.name)
SortedByName(S) == SelectSeq(BucketVariableNames, LAMBDA v : v \in S)

\* the orders in which a Python set may be iterated
Orderings(S) ==
    {s \in [1..Cardinality(S) -> S] : \A i, j \in 1..Cardinality(S) : i # j => s[i] # s[j]}

\* bucket_variables of set_evidential_and_free_variables
BucketVariables(inputs) == UNION {Range(inputs[i].variables) : i \in 1..Len(inputs)}

\* FreeVariables without the sort
FreeVariablesUnsorted(ev, order, own) == SplitNonEvidential(ev, order, {own})

\* the free variables set_evidential_and_free_variables leaves, given the
\* iteration order of the set
FreeVariables(ev, order, own) == SortedByName(Range(SplitNonEvidential(ev, order, {own})))

\* input_log_factors[value] of compute_output_log_factor: one value per log-factor
InputValues(ev, inputs, binding) ==
    [i \in 1..Len(inputs) |-> LogFactorCall(ev, inputs[i], binding)]

\* max_log_factor
MaxLogFactor(values_by_value) ==
    LMax(UNION {Range(values_by_value[value]) : value \in DOMAIN values_by_value})

\* max_log_factor at one assignment of the free variables
BucketShift(ev, own, inputs, free, free_values) ==
    LET binding(value) == [v \in Range(free) |-> free_values[IndexOf(free, v)]] @@ (own :> value)
    IN  MaxLogFactor([value \in DomainSet(ev, own) |-> InputValues(ev, inputs, binding(value))])

\* OutputShift without adding the maximum back
OutputShiftDropped(max_log_factor, log_sum) == log_sum

\* max_log_factor + math.log(...)
OutputShift(max_log_factor, log_sum) == LAdd[max_log_factor, log_sum]

\* function_value_dict[free_values]
OutputValue(ev, own, inputs, free, free_values) ==
    LET binding(value) == [v \in Range(free) |-> free_values[IndexOf(free, v)]] @@ (own :> value)
        by_value == [value \in DomainSet(ev, own) |-> InputValues(ev, inputs, binding(value))]
        max_log_factor == MaxLogFactor(by_value)
        fsum(value) == LFSum(by_value[value], DOMAIN by_value[value])
    IN  OutputShift(max_log_factor,
                    Log(FSum([value \in DomainSet(ev, own) |->
                                 Exp(LSub[fsum(value), max_log_factor])],
                             DomainSet(ev, own))))

\* Variable.evaluate_variables(self._free_variables): the tuples of values
FreeVariablesValues(ev, free) ==
    {t \in [1..Len(free) -> Range(FullDomain)] :
        \A i \in 1..Len(free) : t[i] \in DomainSet(ev, free[i])}

\* add_log_factor(log_factor): any log-factor is appended
AddLogFactor(lf) ==
    /\ Len(input_log_factors) < MaxInputs
    /\ input_log_factors' = Append(input_log_factors, lf)
    /\ bucket_outcome' = "added"
    /\ UNCHANGED <<bucket_variable, evidential_variables, free_variables, bucket_evidence,
                   output_log_factor, set_at>>

\* set_evidential_and_free_variables()
SetEvidentialAndFreeVariables ==
    \E order \in Orderings(BucketVariables(input_log_factors)) :
        /\ evidential_variables' = SplitEvidential(bucket_evidence, order, {bucket_variable})
        /\ free_variables' = FreeVariables(bucket_evidence, order, bucket_variable)
        /\ set_at' = Len(input_log_factors)
        /\ bucket_outcome' = "set"
        /\ UNCHANGED <<bucket_variable, input_log_factors, bucket_evidence, output_log_factor>>

\* a log-factor without the bucket's variable is called with a value for it
\* (line 48): what Factor.__call__ does with a variable that is not the
\* factor's is not fixed here, it may drop the pair or raise
ForeignCallRaises(inputs, own, raises) ==
    raises /\ \E i \in 1..Len(inputs) : own \notin Range(inputs[i].variables)

\* compute_output_log_factor()
ComputeOutputLogFactor ==
    \E raises \in BOOLEAN :
    /\ LET bound == Range(free_variables) \cup {bucket_variable}
           defined == \A i \in 1..Len(input_log_factors) :
                         LogFactorCallDefined(bucket_evidence, input_log_factors[i], bound)
       IN  IF ForeignCallRaises(input_log_factors, bucket_variable, raises)
           THEN bucket_outcome' = "CallError" /\ UNCHANGED output_log_factor
           ELSE IF ~defined
           THEN bucket_outcome' = "KeyError" /\ UNCHANGED output_log_factor
           ELSE IF Len(input_log_factors) = 0
           THEN bucket_outcome' = "ValueError" /\ UNCHANGED output_log_factor
           ELSE /\ bucket_outcome' = "computed"
                /\ output_log_factor' =
                     [variables |-> free_variables,
                      evidence  |-> evidential_variables,
                      function  |-> [free_values \in FreeVariablesValues(bucket_evidence, free_variables) |->
                                        OutputValue(bucket_evidence, bucket_variable,
                                                    input_log_factors, free_variables,
                                                    free_values)]]
    /\ UNCHANGED <<bucket_variable, input_log_factors, evidential_variables, free_variables,
                   bucket_evidence, set_at>>

\* ------------------------------------------------------------------------
\* Specifications
\* ------------------------------------------------------------------------

\* BP(model): the state __init__ leaves
BPInit ==
    /\ model \in Models
    /\ factor_to_variable_messages = <<>>
    /\ variable_to_factor_messages = <<>>
    /\ query = <<>>
    /\ query_variable = "None"
    /\ evidence_tuples = <<>>
    /\ distribution = <<>>
    /\ from_factors = <<>>
    /\ next_factors = <<>>
    /\ from_variables = <<>>
    /\ next_variables = <<>>
    /\ passed = [n \in NodeSet(model.graph) |-> FALSE]
    /\ incoming_messages_number = [n \in NodeSet(model.graph) |-> 0]
    /\ loop_passing = 0
    /\ pc = "idle"
    /\ idx = 0
    /\ outcome = "none"
    /\ runs = 0
    /\ computations = <<>>
    /\ sent = {}
    /\ computed_now = {}
    /\ fresh = "new"
    /\ used_evidence = {}

\* Bucket(variable): the state __init__ leaves
BucketInit ==
    /\ bucket_variable \in {"X", "Y"}
    /\ input_log_factors = <<>>
    /\ evidential_variables = <<>>
    /\ free_variables = <<>>
    /\ bucket_evidence \in {<<>>, << <<"Y", 1>> >>, << <<"Z", 0>> >>, << <<"X", 1>> >>,
                            << <<"Y", 0>>, <<"Z", 1>> >>}
    /\ output_log_factor = <<>>
    /\ bucket_outcome = "none"
    /\ set_at = -1

BPNext ==
    \/ \E q \in Queries(G), ev \in Evidences(G) : Run(q, ev)
    \/ PropagateFactorLeaf
    \/ PropagateVariableLeaf
    \/ EnterLoop
    \/ LeaveLoop
    \/ PropagateFactor
    \/ PropagateVariable
    \/ ComputeDistribution
    \/ ClearMessageCache

BucketNext ==
    \/ \E lf \in LogFactorPool : AddLogFactor(lf)
    \/ SetEvidentialAndFreeVariables
    \/ ComputeOutputLogFactor

Init ==
    /\ BPInit
    /\ bucket_variable = "X"
    /\ input_log_factors = <<>>
    /\ evidential_variables = <<>>
    /\ free_variables = <<>>
    /\ bucket_evidence = <<>>
    /\ output_log_factor = <<>>
    /\ bucket_outcome = "none"
    /\ set_at = -1

Next == BPNext /\ UNCHANGED bucketvars

\* a BP object over one model, any sequence of runs and cache clears
Spec == Init /\ [][Next]_vars

BucketSpecInit ==
    /\ BucketInit
    /\ BPInit
    /\ model = [graph |-> "chain", bad |-> <<>>]

BucketSpecNext == BucketNext /\ UNCHANGED bpvars

\* a bucket: any sequence of calls of its three operations
BucketSpec == BucketSpecInit /\ [][BucketSpecNext]_vars

\* the steps run() takes once it is called: a single thread with no
\* suspension point runs to its end
RunSteps ==
    /\ \/ PropagateFactorLeaf
       \/ PropagateVariableLeaf
       \/ EnterLoop
       \/ LeaveLoop
       \/ PropagateFactor
       \/ PropagateVariable
       \/ ComputeDistribution
    /\ UNCHANGED bucketvars

\* Spec with a called run() running on
FairSpec == Spec /\ WF_vars(RunSteps)

\* ------------------------------------------------------------------------
\* Properties
\* ------------------------------------------------------------------------

Positive == model.bad = <<>>

InRun == pc # "idle"

Errors == {"ValueError", "UnpackError", "KeyError", "CacheError"}

\* C1: with no clear_message_cache() in between, the message of an (evidence,
\* origin, destination) key is computed at most once over all runs; a run
\* sends a stored message without computing it again.  (sent and computed_now
\* describe the last run that passed the checks: they are read while that run
\* is the latest call, not after a later rejected call or a clear.)
C1_ComputedAtMostOnce ==
    /\ \A k \in DOMAIN computations : computations[k] <= 1
    /\ (fresh # "cleared" /\ outcome # "ValidationError") =>
       \A k \in sent \ computed_now :
          /\ Count(<<evidence_tuples, k[1], k[2]>>) = 1
          /\ k \in DOMAIN factor_to_variable_messages[evidence_tuples]
                \cup DOMAIN variable_to_factor_messages[evidence_tuples]

\* a second run with the evidence of the first and another query has ended,
\* having reused some messages and computed others
C1_Witness ==
    /\ runs = 2
    /\ outcome = "returned"
    /\ fresh = "no"
    /\ sent \ computed_now # {}
    /\ computed_now # {}
    /\ evidence_tuples # <<>>

\* C2: on a tree with strictly positive factors a valid run() leaves the
\* relay loop, and whenever a run leaves the relay loop on a tree the query
\* variable's incoming_messages_number equals its number of factors.
C2_RelayEnds ==
    /\ [](IsTree(G) /\ pc = "distribution" =>
            incoming_messages_number[query_variable] = FactorsNumber(G, query_variable))
    /\ ((IsTree(G) /\ Positive /\ InRun) ~> (pc = "distribution"))

\* a run on a tree leaves the relay loop after at least two sweeps
C2_Witness ==
    /\ IsTree(G)
    /\ pc = "distribution"
    /\ loop_passing >= 3
    /\ Cardinality(sent) >= 4
    /\ incoming_messages_number[query_variable] = FactorsNumber(G, query_variable)

\* C3: on a graph with a cycle run() does not go on sweeping: once the
\* sweeps exceed the node count the run has been rejected with an error.
C3_CycleRejected ==
    (~IsTree(G) /\ outcome # "none" /\ loop_passing > NodesNumber(G)) => outcome \in Errors

\* the query and evidence pass the three checks of run()
ValidInput(q, ev) == Len(q) = 1 /\ \A i \in 1..Len(ev) : ev[i][1] # q[1]

\* C4: a run() whose query is empty, has several variables or shares a
\* variable with the evidence ends with a validation error and leaves both
\* message stores and every node's passed and incoming_messages_number as
\* they were.
C4_InvalidRunChangesNothing ==
    [][(runs' = runs + 1 /\ ~ValidInput(query', evidence_tuples')) =>
         /\ outcome' = "ValidationError"
         /\ pc' = "idle"
         /\ factor_to_variable_messages' = factor_to_variable_messages
         /\ variable_to_factor_messages' = variable_to_factor_messages
         /\ passed' = passed
         /\ incoming_messages_number' = incoming_messages_number]_vars

\* after a completed run, a run whose query variable is in its evidence was
\* rejected; its evidence has no cache context
C4_Witness ==
    /\ runs = 2
    /\ outcome = "ValidationError"
    /\ Len(query) = 1
    /\ IsEvidential(evidence_tuples, query[1])
    /\ DOMAIN factor_to_variable_messages = {<<>>}
    /\ \E n \in NodeSet(G) : passed[n]

\* the factor with the non-positive entry was evaluated by this run at that
\* entry: its message was computed and the evidence does not exclude the entry
EvaluatedBad ==
    /\ model.bad # <<>>
    /\ \E k \in computed_now : k[1] = model.bad[1]
    /\ \A v \in Range(FactorVariables(G, model.bad[1])) :
          IsEvidential(evidence_tuples, v) => EvidentialValue(evidence_tuples, v) = 1

\* C5: a run() that evaluates a factor at a zero or negative entry never
\* returns a distribution.
C5_NonPositiveFails == EvaluatedBad => outcome # "returned"

\* the product of the values g[x], x \in S
RProd(g, S) ==
    LET prod[U \in SUBSET S] ==
            IF U = {} THEN Real(1)
            ELSE LET x == CHOOSE y \in U : TRUE
                 IN  RMul[g[x], prod[U \ {x}]]
    IN  prod[S]

\* the joint assignments that agree with the evidence
JointAssignments(m, ev) ==
    {a \in [VariableSet(m.graph) -> Range(FullDomain)] :
        \A i \in 1..Len(ev) : a[ev[i][1]] = ev[i][2]}

\* the product of all factors at a joint assignment
JointWeight(m, a) ==
    RProd([f \in FactorSet(m.graph) |->
              FactorFunction(m, f, [i \in 1..VariablesNumber(m.graph, f) |->
                                       a[FactorVariables(m.graph, f)[i]]])],
          FactorSet(m.graph))

\* the brute-force marginal of q given the evidence
BruteForce(m, ev, q) ==
    LET joint == JointAssignments(m, ev)
        unnormalized == [value \in Range(FullDomain) |->
                            FSum([a \in {b \in joint : b[q] = value} |-> JointWeight(m, a)],
                                 {b \in joint : b[q] = value})]
        total == FSum(unnormalized, Range(FullDomain))
    IN  [t \in {<<value>> : value \in Range(FullDomain)} |-> RDiv[unnormalized[t[1]], total]]

\* C6: on a tree with strictly positive factors the distribution run()
\* returns is the brute-force marginal: the sum over the other non-evidence
\* variables of the product of all factors, normalized over the query's values.
C6_EqualsBruteForce ==
    (IsTree(G) /\ Positive /\ outcome = "returned") =>
        distribution = BruteForce(model, evidence_tuples, query_variable)

\* the chain scenario: query C with evidence A = 0 returned
\* P(C = 0) = 1.04 / 1.44 and P(C = 1) = 0.4 / 1.44
C6_Witness ==
    /\ model = [graph |-> "chain", bad |-> <<>>]
    /\ outcome = "returned"
    /\ query = <<"C">>
    /\ evidence_tuples = << <<"A", 0>> >>
    /\ distribution = (<<0>> :> <<13, 18>>) @@ (<<1>> :> <<5, 18>>)

\* C7: a returned distribution has one entry per value of the query
\* variable's domain, keyed by the length-one tuple of the value; every
\* probability is non-negative and the probabilities sum to 1.
C7_IsDistribution ==
    outcome = "returned" =>
        /\ DOMAIN distribution = {<<value>> : value \in DomainSet(evidence_tuples, query_variable)}
        /\ Cardinality(DOMAIN distribution) = Len(FullDomain)
        /\ \A t \in DOMAIN distribution : distribution[t][1] >= 0 /\ distribution[t][2] > 0
        /\ FSum(distribution, DOMAIN distribution) = Real(1)

\* a run with evidence returned two different positive probabilities
C7_Witness ==
    /\ outcome = "returned"
    /\ evidence_tuples # <<>>
    /\ distribution[<<0>>][1] > 0
    /\ distribution[<<1>>][1] > 0
    /\ distribution[<<0>>] # distribution[<<1>>]

\* the unstabilized value: log(sum over v of exp(sum of the inputs at (t, v)))
BruteLogSumExp(t) ==
    LET binding(value) ==
            [v \in Range(free_variables) |-> t[IndexOf(free_variables, v)]]
                @@ (bucket_variable :> value)
        exps == [value \in DomainSet(bucket_evidence, bucket_variable) |->
                    Exp(LFSum([i \in 1..Len(input_log_factors) |->
                                  LogFactorCall(bucket_evidence, input_log_factors[i],
                                                binding(value))],
                              1..Len(input_log_factors)))]
    IN  Log(FSum(exps, DOMAIN exps))

\* C8: for a bucket with inputs whose variables were set after the last
\* input was added, the factor compute_output_log_factor() returns is over
\* the free variables and takes, at every joint assignment of them, the
\* unstabilized value log(sum_v exp(sum of the inputs)).
C8_OutputIsLogSumExp ==
    (bucket_outcome = "computed" /\ set_at = Len(input_log_factors)) =>
        /\ output_log_factor.variables = free_variables
        /\ DOMAIN output_log_factor.function = [1..Len(free_variables) -> Range(FullDomain)]
        /\ \A t \in DOMAIN output_log_factor.function :
              output_log_factor.function[t] = BruteLogSumExp(t)

\* an output was computed from two inputs with a free and an evidential variable
C8_Witness ==
    /\ bucket_outcome = "computed"
    /\ set_at = 2
    /\ Len(input_log_factors) = 2
    /\ Len(free_variables) >= 1
    /\ Len(evidential_variables) >= 1

\* C9: after clear_message_cache() neither store holds a context; the next
\* run with an evidence used before computes every message it sends, and on
\* a tree with positive factors it returns.
C9_ClearDropsAll ==
    /\ fresh = "cleared" =>
          factor_to_variable_messages = <<>> /\ variable_to_factor_messages = <<>>
    /\ (fresh = "first" /\ evidence_tuples \in used_evidence) =>
          /\ sent \subseteq computed_now
          /\ outcome \notin {"KeyError", "CacheError", "UnpackError"}
          /\ (IsTree(G) /\ Positive) => outcome \in {"running", "returned", "ValidationError"}

\* the run after a clear, with the evidence of the run before it, returned
\* having computed all its messages
C9_Witness ==
    /\ fresh = "first"
    /\ evidence_tuples \in used_evidence
    /\ evidence_tuples # <<>>
    /\ outcome = "returned"
    /\ Cardinality(computed_now) >= 3
    /\ sent = computed_now

\* C10: after set_evidential_and_free_variables() the evidential and the
\* free variables are disjoint, neither holds the bucket's variable, together
\* they are the variables of the inputs without the bucket's variable, and
\* the free variables are in the order of their names.
C10_Partition ==
    bucket_outcome = "set" =>
        LET E == Range(evidential_variables)
            F == Range(free_variables)
        IN  /\ E \cap F = {}
            /\ bucket_variable \notin E \cup F
            /\ E \cup F = BucketVariables(input_log_factors) \ {bucket_variable}
            /\ Cardinality(E) = Len(evidential_variables)
            /\ Cardinality(F) = Len(free_variables)
            /\ \A i, j \in 1..Len(free_variables) :
                  i < j => NameRank(free_variables[i]) < NameRank(free_variables[j])

\* the variables of two inputs were split into two free ones
C10_Witness ==
    /\ bucket_outcome = "set"
    /\ Len(input_log_factors) = 2
    /\ Len(free_variables) = 2
    /\ bucket_evidence # <<>>

\* run() is past its checks and has not returned: in leaf seeding, in the
\* relay phase, at distribution assembly, or ended by an exception
Unreturned == InRun \/ outcome \in Errors

\* C11: from the start of a valid run() until the relay loop has ended the
\* query variable emits nothing: it is in no variable relay queue, no message
\* with the query variable as origin is computed or sent by the run, and its
\* passed flag is false, also when it is a leaf variable.
C11_QueryNeverEmits ==
    Unreturned =>
        /\ query_variable \notin Range(next_variables)
        /\ loop_passing >= 1 => query_variable \notin Range(from_variables)
        /\ \A k \in sent \cup computed_now : k[1] # query_variable
        /\ ~passed[query_variable]

\* a run whose query variable is a leaf variable has ended its relay loop
\* after two sweeps at least, every other variable having emitted
C11_Witness ==
    /\ IsTree(G)
    /\ pc = "distribution"
    /\ query_variable \in Range(VariableLeaves(G))
    /\ loop_passing >= 2
    /\ ~passed[query_variable]
    /\ \A v \in VariableSet(G) \ {query_variable} : passed[v]

\* C12: whatever the traversal fields hold when run() is called, the step
\* that takes a valid run() to its first leaf message leaves every variable
\* and every factor with passed = false and incoming_messages_number = 0 and
\* both next-sweep queues empty.
C12_InitializationResets ==
    [][(runs' = runs + 1 /\ ValidInput(query', evidence_tuples')) =>
         /\ outcome' = "running"
         /\ pc' \in {"factor_leaves", "variable_leaves", "loop"}
         /\ \A n \in NodeSet(G) : ~passed'[n] /\ incoming_messages_number'[n] = 0
         /\ next_factors' = <<>>
         /\ next_variables' = <<>>]_vars

\* a second run has been initialized and has propagated nothing yet; the run
\* before it has left the lists of its last sweep
C12_Witness ==
    /\ runs = 2
    /\ outcome = "running"
    /\ pc \in {"factor_leaves", "variable_leaves"}
    /\ idx = 1
    /\ sent = {}
    /\ from_factors # <<>> \/ from_variables # <<>>
    /\ \A n \in NodeSet(G) : ~passed[n] /\ incoming_messages_number[n] = 0

\* the node the relay loop is about to process, and its neighbours
Processing == pc \in {"from_factors", "from_variables"}

ProcessedNode == IF pc = "from_factors" THEN from_factors[idx] ELSE from_variables[idx]

Neighbours(n) ==
    IF n \in FactorSet(G) THEN Range(FactorVariables(G, n)) ELSE Range(VariableFactors(G, n))

Unpassed(n) == {x \in Neighbours(n) : ~passed[x]}

\* C13: on a tree, a factor (variable) taken from the relay queue has exactly
\* one variable (factor) whose passed flag is false, that neighbour is the
\* only one that has sent the node no message in this run, and the step that
\* processes the node without an exception sends exactly the node's message to
\* that neighbour; the single-element unpacking never fails.
C13_OneUnpassedNeighbour ==
    /\ [](IsTree(G) => outcome # "UnpackError")
    /\ []((IsTree(G) /\ Processing) =>
            /\ Cardinality(Unpassed(ProcessedNode)) = 1
            /\ \A x \in Neighbours(ProcessedNode) :
                  x \in Unpassed(ProcessedNode) <=> <<x, ProcessedNode>> \notin sent)
    /\ [][(IsTree(G) /\ Processing /\ pc' # "idle") =>
            \E x \in Unpassed(ProcessedNode) : sent' = sent \cup {<<ProcessedNode, x>>}
                                               /\ <<ProcessedNode, x>> \notin sent]_vars

\* the factor of three variables is taken from the relay queue with one
\* unpassed variable left, the two others having sent it their messages
C13_Witness ==
    /\ IsTree(G)
    /\ pc = "from_factors"
    /\ VariablesNumber(G, from_factors[idx]) = 3
    /\ Cardinality(Unpassed(from_factors[idx])) = 1
    /\ Cardinality({x \in Neighbours(from_factors[idx]) : <<x, from_factors[idx]>> \in sent}) = 2

\* the store of the current evidence that holds the messages into node n
StoreInto(n) ==
    IF n \in FactorSet(G) THEN variable_to_factor_messages[evidence_tuples]
    ELSE factor_to_variable_messages[evidence_tuples]

\* the messages the engine fetches when it computes the message of the
\* processed node: those of all neighbours but the destination
Requested(n) == {<<x, n>> : x \in Neighbours(n) \ Unpassed(n)}

\* C14: on a tree, the messages fetched for an emitting factor or variable
\* (from all its other neighbours) and for the query variable at distribution
\* assembly (from all its factors) are in the store of the current evidence
\* when they are fetched, computed in this run or reused; no run on a tree
\* ends with a missing message.
C14_FetchedMessagesPresent ==
    IsTree(G) =>
        /\ outcome # "KeyError"
        /\ Processing =>
              /\ Cardinality(Requested(ProcessedNode)) = Cardinality(Neighbours(ProcessedNode)) - 1
              /\ \A k \in Requested(ProcessedNode) : Contains(StoreInto(ProcessedNode), k[1], k[2])
        /\ pc = "distribution" =>
              \A f \in Neighbours(query_variable) :
                 Contains(StoreInto(query_variable), f, query_variable)

\* the factor of three variables is about to compute its message from two
\* fetched messages, one computed in this run and one stored by an earlier run
C14_Witness ==
    /\ IsTree(G)
    /\ pc = "from_factors"
    /\ VariablesNumber(G, from_factors[idx]) = 3
    /\ \E x \in Unpassed(from_factors[idx]) :
          NeedsCompute(factor_to_variable_messages[evidence_tuples], from_factors[idx], x)
    /\ \E k \in Requested(from_factors[idx]) : k \in computed_now
    /\ \E k \in Requested(from_factors[idx]) : k \in sent \ computed_now

\* the nodes waiting in the next-sweep queues, and those of the current sweep
NextNodes == Range(next_factors) \cup Range(next_variables)

FromNodes == Range(from_factors) \cup Range(from_variables)

\* the nodes of the current sweep that the for loops have not reached yet
Pending ==
    IF pc = "from_factors"
    THEN {from_factors[i] : i \in idx..Len(from_factors)} \cup Range(from_variables)
    ELSE IF pc = "from_variables"
    THEN {from_variables[i] : i \in idx..Len(from_variables)}
    ELSE {}

\* C15: the head of a sweep replaces the current queues by the next-sweep
\* queues and empties these; within the sweep the current queues stay as they
\* are, only the node at the head of the for loops emits, and a node that
\* becomes ready goes to a next-sweep queue, so it has not emitted when the
\* sweep ends; a node of the current sweep has emitted in no earlier sweep,
\* and when the sweep ends every node of it has emitted.
C15_SweepLayers ==
    /\ [][loop_passing' = loop_passing + 1 =>
            /\ from_factors' = next_factors
            /\ from_variables' = next_variables
            /\ next_factors' = <<>>
            /\ next_variables' = <<>>
            /\ passed' = passed]_vars
    /\ [][Processing =>
            /\ from_factors' = from_factors
            /\ from_variables' = from_variables
            /\ loop_passing' = loop_passing
            /\ \A n \in NodeSet(G) : (passed'[n] /\ ~passed[n]) => n = ProcessedNode
            /\ \A n \in NodeSet(G) :
                  (n \in Range(next_factors') \cup Range(next_variables') /\ n \notin NextNodes)
                     => (n \notin FromNodes /\ ~passed'[n])]_vars
    /\ [](pc # "idle" => \A n \in NextNodes : ~passed[n])
    /\ []((pc # "idle" /\ loop_passing >= 1) => NextNodes \cap FromNodes = {})
    /\ [](Processing => \A n \in Pending : ~passed[n])
    /\ []((pc = "loop" /\ loop_passing >= 1) => \A n \in FromNodes : passed[n])

\* the second sweep has ended: its variable has emitted, and the factor that
\* became ready in it waits in the next-sweep queue, not having emitted
C15_Witness ==
    /\ pc = "loop"
    /\ outcome = "running"
    /\ loop_passing = 2
    /\ from_variables # <<>>
    /\ \A n \in FromNodes : passed[n]
    /\ next_factors # <<>>
    /\ \A n \in NextNodes : ~passed[n] /\ n \notin FromNodes

Degree(n) == IF n \in FactorSet(G) THEN VariablesNumber(G, n) ELSE FactorsNumber(G, n)

\* the node whose message the next step of run() propagates
Emitter ==
    IF pc = "factor_leaves" THEN FactorLeaves(G)[idx]
    ELSE IF pc = "variable_leaves" THEN VariableLeaves(G)[idx]
    ELSE ProcessedNode

\* C16: a step of run() in which a node receives a message appends the node
\* to its next-sweep queue exactly when the node's incoming_messages_number
\* after the receipt plus one equals its degree and the node is not the query
\* variable; no other node is appended.  A node that is appended was in no
\* queue before and has not emitted, and a node that emits has not emitted
\* before in the run: every node is enqueued at most once and emits at most
\* one message.
C16_EnqueueCondition ==
    /\ [][(runs' = runs /\ incoming_messages_number' # incoming_messages_number) =>
            \E to \in NodeSet(G) :
               /\ incoming_messages_number' =
                     [incoming_messages_number EXCEPT ![to] = @ + 1]
               /\ LET ready == /\ incoming_messages_number'[to] + 1 = Degree(to)
                               /\ to # query_variable
                  IN  IF ready
                      THEN /\ IF to \in FactorSet(G)
                              THEN /\ next_factors' = Append(next_factors, to)
                                   /\ next_variables' = next_variables
                              ELSE /\ next_variables' = Append(next_variables, to)
                                   /\ next_factors' = next_factors
                           /\ to \notin NextNodes
                           /\ loop_passing >= 1 => to \notin FromNodes
                           /\ ~passed[to]
                      ELSE /\ next_factors' = next_factors
                           /\ next_variables' = next_variables
               /\ ~passed[Emitter]
               /\ passed' = [passed EXCEPT ![Emitter] = TRUE]
               /\ \A k \in sent : k[1] # Emitter
               /\ sent' = sent \cup {<<Emitter, to>>}]_vars
    /\ [][(runs' = runs /\ incoming_messages_number' = incoming_messages_number) =>
            /\ next_factors' \in {next_factors, <<>>}
            /\ next_variables' \in {next_variables, <<>>}
            /\ sent' = sent]_vars
    /\ [](pc # "idle" =>
            /\ \A i, j \in 1..Len(next_factors) : i # j => next_factors[i] # next_factors[j]
            /\ \A i, j \in 1..Len(next_variables) : i # j => next_variables[i] # next_variables[j]
            /\ \A k, l \in sent : k[1] = l[1] => k = l)

\* the factor of three variables has received its second message and waits in
\* the next-sweep queue; the query variable has received nothing yet
C16_Witness ==
    /\ IsTree(G)
    /\ outcome = "running"
    /\ \E f \in Range(next_factors) :
          /\ VariablesNumber(G, f) = 3
          /\ incoming_messages_number[f] = 2
          /\ ~passed[f]
    /\ incoming_messages_number[query_variable] = 0
    /\ Cardinality(sent) >= 3

\* every message of the store before a step is in the store after it, with
\* the same values, and only the context of the evidence ev can differ
OnlyAdded(before, after, ev) ==
    /\ DOMAIN before \subseteq DOMAIN after
    /\ DOMAIN after \subseteq DOMAIN before \cup {ev}
    /\ \A e \in DOMAIN before :
          /\ e # ev => after[e] = before[e]
          /\ \A k \in DOMAIN before[e] : k \in DOMAIN after[e] /\ after[e][k] = before[e][k]

\* C17: every step of run(), from the call to its end, only adds to the two
\* message stores: the contexts and messages present before the step are
\* present after it with the same values (so creating the cache context of an
\* evidence that has one changes nothing), the contexts of other evidences
\* are unchanged, and no run ends with the refusal of a second message for a
\* stored key.
C17_StoresOnlyGrow ==
    /\ [][(runs' # runs \/ pc # "idle") =>
            /\ OnlyAdded(factor_to_variable_messages, factor_to_variable_messages',
                         evidence_tuples')
            /\ OnlyAdded(variable_to_factor_messages, variable_to_factor_messages',
                         evidence_tuples')]_vars
    /\ [](outcome # "CacheError")

\* a run is past its relay loop with a store that holds, for its evidence, a
\* message of an earlier run it has not sent and a message it has computed
C17_Witness ==
    /\ pc = "distribution"
    /\ evidence_tuples # <<>>
    /\ \E k \in DOMAIN factor_to_variable_messages[evidence_tuples] : k \notin sent
    /\ \E k \in DOMAIN factor_to_variable_messages[evidence_tuples] : k \in computed_now
    /\ \E k \in DOMAIN variable_to_factor_messages[evidence_tuples] : k \in sent \ computed_now

\* the maximum, over the values of the bucket's variable, of the sum of all
\* input log-factors at the free assignment t
MaxOfSums(t) ==
    LET binding(value) ==
            [v \in Range(free_variables) |-> t[IndexOf(free_variables, v)]]
                @@ (bucket_variable :> value)
    IN  LMax({LFSum([i \in 1..Len(input_log_factors) |->
                        LogFactorCall(bucket_evidence, input_log_factors[i], binding(value))],
                    1..Len(input_log_factors)) :
              value \in DomainSet(bucket_evidence, bucket_variable)})

\* C18: at every free assignment the shift compute_output_log_factor() uses is
\* the maximum over the bucket variable's values of the sum of all input
\* log-factors.
C18_ShiftIsMaxOfSums ==
    (bucket_outcome = "computed" /\ set_at = Len(input_log_factors)) =>
        \A t \in FreeVariablesValues(bucket_evidence, free_variables) :
            BucketShift(bucket_evidence, bucket_variable, input_log_factors,
                        free_variables, t) = MaxOfSums(t)

PassedNeighbours(n) == {x \in Neighbours(n) : passed[x]}

\* the neighbours that have sent n a message in this run
Senders(n) == {x \in Neighbours(n) : <<x, n>> \in sent}

\* C19 (as amended): at every point of leaf seeding and of the relay phase on
\* a tree, each node's incoming_messages_number is the number of its
\* neighbours that have sent it a message in this run and never exceeds its
\* degree; for a node that has not emitted this is the number of its
\* neighbours whose passed flag is true, and a node that has emitted has
\* received from all neighbours but the one it sent to, whose flag may be
\* true as well.
C19_CountOfSenders ==
    (IsTree(G) /\ Unreturned) =>
        \A n \in NodeSet(G) :
            /\ incoming_messages_number[n] = Cardinality(Senders(n))
            /\ incoming_messages_number[n] <= Degree(n)
            /\ Senders(n) \subseteq PassedNeighbours(n)
            /\ ~passed[n] => Senders(n) = PassedNeighbours(n)
            /\ passed[n] => incoming_messages_number[n] = Degree(n) - 1

\* a factor that has emitted has a count below the number of its passed
\* neighbours: the variable it sent to has emitted in its turn
C19_Witness ==
    /\ IsTree(G)
    /\ InRun
    /\ \E n \in FactorSet(G) :
          /\ passed[n]
          /\ Degree(n) >= 2
          /\ incoming_messages_number[n] = Degree(n) - 1
          /\ Cardinality(PassedNeighbours(n)) = Degree(n)

\* C19 as stated: each node's incoming_messages_number equals the number of
\* its neighbours whose passed flag is true.
C19_CountEqualsPassedNeighbours ==
    (IsTree(G) /\ InRun /\ pc # "distribution") =>
        \A n \in NodeSet(G) :
            /\ incoming_messages_number[n] = Cardinality(PassedNeighbours(n))
            /\ incoming_messages_number[n] <= Degree(n)

\* the nodes within k edges of the query variable
Ball[k \in Nat] ==
    IF k = 0 THEN {query_variable}
    ELSE Ball[k - 1] \cup UNION {Neighbours(n) : n \in Ball[k - 1]}

\* the number of edges between n and the query variable on a connected graph
DistanceToQuery(n) ==
    CHOOSE k \in 0..NodesNumber(G) : n \in Ball[k] /\ (k = 0 \/ n \notin Ball[k - 1])

\* C20: when the relay loop of run() has ended on a tree with N nodes, every
\* node but the query variable has passed = true and the query variable has
\* not, the run has propagated exactly N - 1 messages, one from each node but
\* the query variable to its neighbour on the path to the query variable, and
\* both next-sweep queues are empty.
C20_AllPassedAtEnd ==
    (IsTree(G) /\ pc = "distribution") =>
        /\ \A n \in NodeSet(G) : passed[n] <=> n # query_variable
        /\ Cardinality(sent) = NodesNumber(G) - 1
        /\ \A n \in NodeSet(G) \ {query_variable} :
              \E x \in Neighbours(n) :
                 /\ <<n, x>> \in sent
                 /\ DistanceToQuery(x) = DistanceToQuery(n) - 1
        /\ next_factors = <<>>
        /\ next_variables = <<>>

\* the relay loop has ended on the star with a leaf as the query variable:
\* six messages from the six other nodes, the farthest four edges away
C20_Witness ==
    /\ model.graph = "star"
    /\ pc = "distribution"
    /\ query_variable \in Range(VariableLeaves(G))
    /\ Cardinality(sent) = 6
    /\ \E n \in NodeSet(G) : DistanceToQuery(n) = 4 /\ passed[n]
    /\ loop_passing >= 3

\* ------------------------------------------------------------------------
\* run() on empty message stores, as a function of the model, the query
\* variable and the evidence
\* ------------------------------------------------------------------------

\* the fields after the initialization of run() with no stored message
ColdStart(m) ==
    [fvm |-> EmptyMessages, vfm |-> EmptyMessages,
     passed |-> [n \in NodeSet(m.graph) |-> FALSE],
     incoming_messages_number |-> [n \in NodeSet(m.graph) |-> 0],
     from_factors |-> <<>>, next_factors |-> <<>>,
     from_variables |-> <<>>, next_variables |-> <<>>,
     loop_passing |-> 0, outcome |-> "running", distribution |-> <<>>]

\* _propagate_* on the fields s: cache the computed message r, _update_passing,
\* _extend_next_*
ColdPropagate(s, m, q, kind, from, to, r) ==
    LET store == IF kind = "fv" THEN s.fvm ELSE s.vfm
        need  == ~Contains(store, from, to)
        count == s.incoming_messages_number[to] + 1
    IN  IF need /\ r.error # "none" THEN [s EXCEPT !.outcome = r.error]
        ELSE [s EXCEPT
                !.fvm = IF kind = "fv" /\ need THEN Cache(@, from, to, r.values) ELSE @,
                !.vfm = IF kind = "vf" /\ need THEN Cache(@, from, to, r.values) ELSE @,
                !.passed[from] = TRUE,
                !.incoming_messages_number[to] = count,
                !.next_variables =
                    IF kind = "fv" /\ to # q /\ count + 1 = FactorsNumber(m.graph, to)
                    THEN Append(@, to) ELSE @,
                !.next_factors =
                    IF kind = "vf" /\ count + 1 = VariablesNumber(m.graph, to)
                    THEN Append(@, to) ELSE @]

\* one pass of one of the four for loops of run() on the node n
ColdStep(s, m, q, ev, phase, n) ==
    LET g == m.graph
    IN  CASE phase = "factor_leaves" ->
               ColdPropagate(s, m, q, "fv", n, FactorVariables(g, n)[1],
                             FactorLeafMessage(m, ev, n, FactorVariables(g, n)[1]))
          [] phase = "variable_leaves" ->
               IF n = q THEN s
               ELSE ColdPropagate(s, m, q, "vf", n, VariableFactors(g, n)[1],
                                  VariableLeafMessage(ev, n))
          [] phase = "from_factors" ->
               LET unpassed == SelectSeq(FactorVariables(g, n), LAMBDA v : ~s.passed[v])
               IN  IF Len(unpassed) # 1 THEN [s EXCEPT !.outcome = "UnpackError"]
                   ELSE ColdPropagate(s, m, q, "fv", n, unpassed[1],
                                      FactorMessage(m, ev, s.vfm, n, unpassed[1]))
          [] phase = "from_variables" ->
               LET unpassed == SelectSeq(VariableFactors(g, n), LAMBDA f : ~s.passed[f])
               IN  IF Len(unpassed) # 1 THEN [s EXCEPT !.outcome = "UnpackError"]
                   ELSE ColdPropagate(s, m, q, "vf", n, unpassed[1],
                                      VariableMessage(m, ev, s.fvm, n, unpassed[1]))

\* a for loop of run() over the nodes list[i], list[i + 1], ...: an exception ends it
RECURSIVE ColdFor(_, _, _, _, _, _, _)
ColdFor(s, m, q, ev, phase, list, i) ==
    IF i > Len(list) \/ s.outcome # "running" THEN s
    ELSE ColdFor(ColdStep(s, m, q, ev, phase, list[i]), m, q, ev, phase, list, i + 1)

\* _initialize_main_loop: the two loops over the leaves
ColdSeeded(m, q, ev) ==
    ColdFor(ColdFor(ColdStart(m), m, q, ev, "factor_leaves", FactorLeaves(m.graph), 1),
            m, q, ev, "variable_leaves", VariableLeaves(m.graph), 1)

ColdRunning(s, m, q) ==
    s.incoming_messages_number[q] < FactorsNumber(m.graph, q)

\* one pass of the while loop of run()
ColdSweep(s, m, q, ev) ==
    LET head == [s EXCEPT !.loop_passing = @ + 1,
                          !.from_factors = s.next_factors, !.next_factors = <<>>,
                          !.from_variables = s.next_variables, !.next_variables = <<>>]
    IN  ColdFor(ColdFor(head, m, q, ev, "from_factors", head.from_factors, 1),
                m, q, ev, "from_variables", head.from_variables, 1)

\* the fields after k passes of the while loop, or when it ended before
RECURSIVE ColdAfter(_, _, _, _)
ColdAfter(m, q, ev, k) ==
    IF k = 0 THEN ColdSeeded(m, q, ev)
    ELSE LET s == ColdAfter(m, q, ev, k - 1)
         IN  IF s.outcome # "running" \/ ~ColdRunning(s, m, q) THEN s
             ELSE ColdSweep(s, m, q, ev)

\* the fields when run() has ended after at most k passes of the while loop
ColdEnd(m, q, ev, k) ==
    LET s == ColdAfter(m, q, ev, k)
    IN  IF s.outcome # "running" \/ ColdRunning(s, m, q) THEN s
        ELSE [s EXCEPT !.distribution = Distribution(m, ev, s.fvm, q),
                       !.passed[q] = TRUE,
                       !.outcome = "returned"]

\* the traversal fields of the state are those of the fields s
SameTraversal(s) ==
    /\ passed = s.passed
    /\ incoming_messages_number = s.incoming_messages_number
    /\ next_factors = s.next_factors
    /\ next_variables = s.next_variables
    /\ loop_passing = s.loop_passing
    /\ loop_passing >= 1 => from_factors = s.from_factors /\ from_variables = s.from_variables

\* C21: whatever the stores hold when a valid run() is called, at the while
\* test after every sweep its traversal fields are those of the run of the
\* same model, query and evidence on empty stores after as many sweeps, and it
\* ends as that run ends: with the same outcome, the same distribution and
\* the same traversal fields.
C21_CacheIndependent ==
    /\ (pc \in {"loop", "distribution"} /\ outcome = "running") =>
          LET s == ColdAfter(model, query_variable, evidence_tuples, loop_passing)
          IN  SameTraversal(s) /\ s.outcome = "running"
    /\ (pc = "idle" /\ outcome \in Errors \cup {"returned"}) =>
          LET s == ColdEnd(model, query_variable, evidence_tuples, loop_passing)
          IN  /\ SameTraversal(s)
              /\ outcome = s.outcome
              /\ distribution = s.distribution

\* a second run has returned after an earlier run with the same evidence and
\* another query: it has sent stored messages and computed others, and the
\* run on empty stores returns the same distribution
C21_Witness ==
    /\ runs = 2
    /\ pc = "idle"
    /\ outcome = "returned"
    /\ fresh = "no"
    /\ Cardinality(sent \ computed_now) >= 2
    /\ Cardinality(computed_now) >= 2
    /\ loop_passing >= 3
    /\ distribution = ColdEnd(model, query_variable, evidence_tuples, loop_passing).distribution
    /\ distribution[<<0>>] # distribution[<<1>>]

\* C22: on a tree with N nodes the loop-pass counter of run() never exceeds
\* N, so neither does its final value, and every sweep, the last included, has
\* at least one queued node to process.
C22_SweepsBounded ==
    /\ [](IsTree(G) => loop_passing <= NodesNumber(G))
    /\ [][(IsTree(G) /\ loop_passing' = loop_passing + 1) =>
            /\ next_factors # <<>> \/ next_variables # <<>>
            /\ from_factors' # <<>> \/ from_variables' # <<>>]_vars
    /\ []((IsTree(G) /\ InRun /\ loop_passing >= 1) => FromNodes # {})

\* a run on the chain of five nodes has ended its relay loop after three
\* sweeps, the last with one factor to process
C22_Witness ==
    /\ IsTree(G)
    /\ NodesNumber(G) = 5
    /\ pc = "distribution"
    /\ loop_passing = 3
    /\ Len(from_factors) = 1
    /\ from_variables = <<>>
    /\ passed[from_factors[1]]

====
